---- MODULE Spec2Model ----
(***************************************************************************)
(* A model of src/server.py: the start-up check of the two credentials,   *)
(* the construction of the Spotify session, and the /search handler.      *)
(*                                                                         *)
(* The handler is "async def" but calls the blocking sp.search directly,  *)
(* so one request is handled from its first line to its return without    *)
(* any other request interleaving: one request is one action.             *)
(***************************************************************************)
EXTENDS Integers, Sequences, FiniteSets, TLC

VARIABLES
    env,           \* the process environment: variable name -> Python value
    proc,          \* "boot" (module not yet loaded), "failed", "serving"
    startupError,  \* the message of the RuntimeError raised at start-up, or ""
    sp,            \* the module-level Spotify session, NoneV before it is built
    provider,      \* what a call of sp.search does now: returns a value or raises
    request,       \* the last request received (raw tokens), or NoRequest
    calls,         \* the remote calls issued while handling the last request
    response,      \* the HTTP response to the last request, or NoResponse
    fresh,         \* observer: the provider has not changed since the last response
    prev           \* observer: an earlier exchange kept for comparison

vars == <<env, proc, startupError, sp, provider, request, calls, response, fresh, prev>>

(***************************************************************************)
(* Bounds of the model.                                                    *)
(***************************************************************************)
MaxItems == 2      \* longest items list the provider returns
MaxQueryLen == 2   \* longest query text
MaxLimit == 55     \* integer limits range over -MaxLimit .. MaxLimit
HugeLimit == 1000  \* one limit far above the range
ProviderTotal == 1000  \* the provider's advertised (unfiltered) total

(***************************************************************************)
(* Python values, tagged by their type.                                    *)
(***************************************************************************)
NoneV == [kind |-> "none"]
Str(s) == [kind |-> "str", val |-> s]
IntV(n) == [kind |-> "int", val |-> n]
Dict(m) == [kind |-> "dict", map |-> m]
List(s) == [kind |-> "list", elems |-> s]

\* Python's truth test, as "not v" uses it.
Falsy(v) ==
    CASE v.kind = "none" -> TRUE
      [] v.kind = "str"  -> v.val = ""
      [] v.kind = "int"  -> v.val = 0
      [] v.kind = "dict" -> DOMAIN v.map = {}
      [] v.kind = "list" -> v.elems = <<>>
      [] OTHER -> FALSE

isinstance_dict(v) == v.kind = "dict"
has_key(d, k) == k \in DOMAIN d.map

\* The outcome of evaluating Python code: a value, or an exception.
Returned(v) == [raised |-> FALSE, value |-> v]
Raised(e) == [raised |-> TRUE, exc |-> e]

min(a, b) == IF a <= b THEN a ELSE b
max(a, b) == IF a >= b THEN a ELSE b

RECURSIVE join(_, _)
join(sep, s) ==
    IF s = <<>> THEN ""
    ELSE IF Len(s) = 1 THEN s[1]
    ELSE s[1] \o sep \o join(sep, Tail(s))

(***************************************************************************)
(* Start-up: lines 23-44.                                                  *)
(***************************************************************************)
required_env_vars == <<"CLIENT_ID", "CLIENT_SECRET">>

getenv(e, var) == e[var]

\* Only an unset variable counts as missing, an empty one does not.
missing_vars_unset_only(e) ==
    SelectSeq(required_env_vars, LAMBDA var : getenv(e, var).kind = "none")

\* line 25
missing_vars(e) == SelectSeq(required_env_vars, LAMBDA var : Falsy(getenv(e, var)))

StartupMessage(e) ==
    "Please set the following environment variables: " \o join(", ", missing_vars(e))

Spotify(e) ==
    [kind |-> "Spotify",
     client_id |-> getenv(e, "CLIENT_ID"),
     client_secret |-> getenv(e, "CLIENT_SECRET")]

NoRequest == [kind |-> "none"]
NoResponse == [status |-> 0]
NoExchange == [kind |-> "none"]

EnvValues == {NoneV, Str(""), Str("id")}
Envs == [{"CLIENT_ID", "CLIENT_SECRET"} -> EnvValues]

Init ==
    /\ env \in Envs
    /\ proc = "boot"
    /\ startupError = ""
    /\ sp = NoneV
    /\ provider = Returned(NoneV)
    /\ request = NoRequest
    /\ calls = <<>>
    /\ response = NoResponse
    /\ fresh = FALSE
    /\ prev = NoExchange

Startup ==
    /\ proc = "boot"
    /\ IF missing_vars(env) # <<>>
         THEN /\ proc' = "failed"
              /\ startupError' = StartupMessage(env)
              /\ sp' = sp
         ELSE /\ proc' = "serving"
              /\ startupError' = startupError
              /\ sp' = Spotify(env)
    /\ UNCHANGED <<env, provider, request, calls, response, fresh, prev>>

(***************************************************************************)
(* The provider: the outcome of sp.search(...) in the provider's current   *)
(* state.  It is outside the process and changes on its own.  The process  *)
(* sees the provider only when it handles a request, so the changes        *)
(* between two requests are taken as one.                                  *)
(***************************************************************************)
ProviderChange(p) ==
    /\ proc = "serving"
    /\ fresh \/ request = NoRequest
    /\ p # provider
    /\ provider' = p
    /\ fresh' = FALSE
    /\ UNCHANGED <<env, proc, startupError, sp, request, calls, response, prev>>

(***************************************************************************)
(* Request validation, done by the framework from the handler's signature: *)
(* lines 47-50 and 61-66.                                                  *)
(***************************************************************************)
SearchType == {"track", "album", "playlist"}

\* A type token matched without regard to case.
lower(token) ==
    CASE token = "Track" -> "track"
      [] token = "ALBUM" -> "album"
      [] OTHER -> token

valid_type_caseless(type) == lower(type) \in SearchType

valid_type(type) == type \in SearchType

\* A limit token: absent, an integer, or text that is no integer.
LimitAbsent == [kind |-> "absent"]
LimitInt(n) == [kind |-> "int", val |-> n]
LimitText == [kind |-> "text"]

valid_limit(limit) == limit.kind # "text"

default_limit == 5

parse_limit(limit) == IF limit.kind = "absent" THEN default_limit ELSE limit.val

ValidationError == [status |-> 422]

(***************************************************************************)
(* The response models: lines 53-59.                                       *)
(***************************************************************************)
\* SpotifyItem(name=..., uri=...): both fields are declared str.
SpotifyItem(name, uri) ==
    IF name.kind = "str" /\ uri.kind = "str"
    THEN Returned([name |-> name.val, uri |-> uri.val])
    ELSE Raised("ValidationError")

SearchResponse(results, total) == [status |-> 200, results |-> results, total |-> total]

\* Responses the handler never gives; the variants of its steps use them.
ServerError == [status |-> 500]
NotFound == [status |-> 404]

(***************************************************************************)
(* The handler: lines 62-130.                                              *)
(***************************************************************************)
\* The lower bound off by one.
clamp_from_zero(limit) == min(max(0, limit), 50)

\* line 82
clamp(limit) == min(max(1, limit), 50)

\* Only the first underscore replaced: query.replace("_", " ", 1).
replace_first(query) ==
    [i \in 1..Len(query) |->
        IF query[i] = "_" /\ (\A j \in 1..(i - 1) : query[j] # "_") THEN " " ELSE query[i]]

\* line 85: query.replace("_", " ")
replace(query) == [i \in 1..Len(query) |-> IF query[i] = "_" THEN " " ELSE query[i]]

\* A failed call tried once more.
remote_calls_retry(call) == IF provider.raised THEN <<call, call>> ELSE <<call>>

\* lines 88-93: the one call of sp.search
remote_calls(call) == <<call>>

search_call(query, type, limit) == [q |-> query, type |-> type, limit |-> limit, market |-> "US"]

\* line 101
result_key(type) == type \o "s"

\* Nothing found answered as an error.
missing_key_404 == NotFound

\* line 98
no_response == SearchResponse(<<>>, 0)
\* line 104
missing_key == SearchResponse(<<>>, 0)
\* line 110
no_items == SearchResponse(<<>>, 0)

\* A module-level list that is never emptied.
stale_list == IF response.status = 200 THEN response.results ELSE <<>>

\* line 113
new_list == <<>>

\* lines 114-121
RECURSIVE extract(_, _)
extract(items, simplified_results) ==
    IF items = <<>> THEN Returned(simplified_results)
    ELSE LET item == Head(items) IN
         IF isinstance_dict(item) /\ has_key(item, "name") /\ has_key(item, "uri")
         THEN LET made == SpotifyItem(item.map["name"], item.map["uri"]) IN
              IF made.raised THEN made
              ELSE extract(Tail(items), Append(simplified_results, made.value))
         ELSE extract(Tail(items), simplified_results)

\* The total the provider advertises in its response.
provider_total(simplified_results) ==
    LET results == provider.value.map
        key == CHOOSE k \in DOMAIN results : TRUE
    IN results[key].map["total"].val

\* line 123
len(simplified_results) == Len(simplified_results)

\* lines 95-125: the interpretation of what sp.search returned
interpret(type, results) ==
    IF Falsy(results) THEN Returned(no_response)
    ELSE IF ~has_key(results, result_key(type)) THEN Returned(missing_key)
    ELSE LET section == results.map[result_key(type)] IN
         IF ~isinstance_dict(section) THEN Raised("AttributeError")
         ELSE LET items == IF has_key(section, "items")
                           THEN section.map["items"] ELSE List(<<>>) IN
              IF Falsy(items) THEN Returned(no_items)
              ELSE LET done == extract(items.elems, new_list) IN
                   IF done.raised THEN done
                   ELSE Returned(SearchResponse(done.value, len(done.value)))

\* lines 80-125: the try block; the calls it issued and how it ended
search_try(query, type, limit) ==
    LET limit1 == clamp(limit)
        query1 == replace(query)
        issued == remote_calls(search_call(query1, type, limit1))
    IN [calls |-> issued,
        out |-> IF provider.raised THEN Raised(provider.exc)
                ELSE interpret(type, provider.value)]

\* The exception left to the framework.
reraise(e) == ServerError

\* lines 127-130
except_handler(e) == SearchResponse(<<>>, 0)

Request(query, type, limit) == [kind |-> "request", query |-> query, type |-> type, limit |-> limit]

\* One request, from its arrival to its response.
Handle(query, type, limit) ==
    /\ proc = "serving"
    /\ request' = Request(query, type, limit)
    /\ IF valid_type(type) /\ valid_limit(limit)
         THEN LET done == search_try(query, type, parse_limit(limit)) IN
              /\ calls' = done.calls
              /\ response' = IF done.out.raised THEN except_handler(done.out.exc)
                             ELSE done.out.value
         ELSE /\ calls' = <<>>
              /\ response' = ValidationError
    /\ fresh' = TRUE
    /\ UNCHANGED <<env, proc, startupError, sp, provider>>

\* Observer: another request was handled after the kept exchange.
between(p, r) == IF p = NoExchange \/ p.request = r THEN p
                 ELSE [p EXCEPT !.between = TRUE]

search(query, type, limit) ==
    /\ Handle(query, type, limit)
    /\ prev' = between(prev, request')

\* Observer: the same request, and the exchange is kept for later comparison.
searchKept(query, type, limit) ==
    /\ Handle(query, type, limit)
    /\ prev' = [kind |-> "exchange", request |-> request', provider |-> provider,
                response |-> response', between |-> FALSE]

(***************************************************************************)
(* The inputs: what the provider may answer and what a caller may send.    *)
(***************************************************************************)
WellFormedA == Dict([name |-> Str("Song A"), uri |-> Str("spotify:track:123")])
WellFormedB == Dict([name |-> Str("Song B"), uri |-> Str("spotify:track:456")])

ItemShapes ==
    {NoneV, Str("x"), WellFormedA, WellFormedB,
     Dict([name |-> Str("Song A")]),
     Dict([uri |-> Str("spotify:track:123")]),
     Dict([name |-> NoneV, uri |-> Str("spotify:track:123")]),
     Dict([name |-> Str("Song A"), uri |-> NoneV])}

ItemLists == UNION {[1..n -> ItemShapes] : n \in 0..MaxItems}

Sections ==
    {NoneV, Dict([total |-> IntV(ProviderTotal)])}
    \cup {Dict([items |-> List(l), total |-> IntV(ProviderTotal)]) : l \in ItemLists}

Keys == {"tracks", "albums", "playlists"}

Under(k, section) == Dict([x \in {k} |-> section])

\* The sections returned under the keys other than "tracks".
FewSections ==
    {NoneV, Dict([total |-> IntV(ProviderTotal)]),
     Dict([items |-> List(<<>>), total |-> IntV(ProviderTotal)]),
     Dict([items |-> List(<<WellFormedB>>), total |-> IntV(ProviderTotal)]),
     Dict([items |-> List(<<NoneV, WellFormedA>>), total |-> IntV(ProviderTotal)])}

Raws ==
    {NoneV, Dict(<<>>)}
    \cup {Under("tracks", s) : s \in Sections}
    \cup {Under(k, s) : k \in Keys \ {"tracks"}, s \in FewSections}

Exceptions == {"ConnectionError", "SpotifyException", "ReadTimeout", "JSONDecodeError"}

Providers == {Returned(r) : r \in Raws} \cup {Raised(e) : e \in Exceptions}

\* A few provider states, for the specifications that vary the request.
FewProviders ==
    {Returned(NoneV), Raised("ConnectionError"),
     Returned(Under("tracks", Dict([items |-> List(<<WellFormedA, WellFormedB>>),
                                    total |-> IntV(ProviderTotal)]))),
     Returned(Under("albums", Dict([items |-> List(<<WellFormedB>>),
                                    total |-> IntV(ProviderTotal)])))}

Chars == {"_", " ", "a", "A"}
Queries == UNION {[1..n -> Chars] : n \in 0..MaxQueryLen}
OneQuery == {<<"a", "_", "b">>}

TypeTokens == {"track", "album", "playlist", "artist", "Track", "ALBUM", ""}

Limits ==
    {LimitAbsent, LimitText}
    \cup {LimitInt(n) : n \in (-MaxLimit)..MaxLimit}
    \cup {LimitInt(HugeLimit), LimitInt(-HugeLimit)}

(***************************************************************************)
(* The specifications.                                                     *)
(***************************************************************************)
\* Every provider answer, a fixed query and limit.
Next ==
    \/ Startup
    \/ \E p \in Providers : ProviderChange(p)
    \/ \E t \in SearchType \cup {"artist"} : search(<<"a", "_", "b">>, t, LimitAbsent)

Spec == Init /\ [][Next]_vars

\* Every query text.
NextQuery ==
    \/ Startup
    \/ \E p \in FewProviders : ProviderChange(p)
    \/ \E q \in Queries, t \in {"track", "artist"}, l \in {LimitAbsent, LimitInt(0)} :
           search(q, t, l)

SpecQuery == Init /\ [][NextQuery]_vars

\* Every type token and limit.
NextLimit ==
    \/ Startup
    \/ \E p \in FewProviders : ProviderChange(p)
    \/ \E t \in TypeTokens, l \in {LimitAbsent, LimitText, LimitInt(25)} :
           search(<<"a", "_", "b">>, t, l)
    \/ \E l \in Limits : search(<<"a", "_", "b">>, "track", l)

SpecLimit == Init /\ [][NextLimit]_vars

\* Repeated requests, one earlier exchange kept.
IdemProviders ==
    FewProviders
    \cup {Returned(Under("tracks", Dict([items |-> List(<<WellFormedA, NoneV>>),
                                         total |-> IntV(ProviderTotal)])))}

NextIdem ==
    \/ Startup
    \/ \E p \in IdemProviders : ProviderChange(p)
    \/ \E q \in {<<"a">>, <<"_">>}, t \in {"track", "album", "artist"} :
           \/ search(q, t, LimitAbsent)
           \/ searchKept(q, t, LimitAbsent)

SpecIdem == Init /\ [][NextIdem]_vars

(***************************************************************************)
(* What the claims speak of, stated apart from the handler's definitions.  *)
(***************************************************************************)
PluralKey == [track |-> "tracks", album |-> "albums", playlist |-> "playlists"]

Valid(r) ==
    /\ r.kind = "request"
    /\ r.type \in {"track", "album", "playlist"}
    /\ r.limit.kind \in {"absent", "int"}

Empty200 == [status |-> 200, results |-> <<>>, total |-> 0]

\* The last request was valid and answered from the provider's present state.
Answered == fresh /\ Valid(request)

IsDict(v) == v.kind = "dict"
Has(v, k) == IsDict(v) /\ v.map # <<>> /\ k \in DOMAIN v.map

\* The provider returned a response holding the key of the requested type.
KeyPresent == Answered /\ ~provider.raised /\ Has(provider.value, PluralKey[request.type])

TheSection == provider.value.map[PluralKey[request.type]]

\* ... and under it a non-empty items list.
ItemsPresent ==
    /\ KeyPresent
    /\ Has(TheSection, "items")
    /\ TheSection.map["items"].kind = "list"
    /\ TheSection.map["items"].elems # <<>>

TheItems == TheSection.map["items"].elems

NonNull(item, k) == Has(item, k) /\ item.map[k].kind # "none"

WellFormed(item) == NonNull(item, "name") /\ NonNull(item, "uri")

PairOf(item) == [name |-> item.map["name"].val, uri |-> item.map["uri"].val]

AcceptedPairs(items) ==
    LET kept == SelectSeq(items, WellFormed)
    IN [i \in 1..Len(kept) |-> PairOf(kept[i])]

\* An item that is a record holding both fields, one of them null.
NullField(item) == Has(item, "name") /\ Has(item, "uri") /\ ~WellFormed(item)

(***************************************************************************)
(* C1: for a non-empty items list the results are exactly the raw items    *)
(* that are records with a non-null name and a non-null uri, in provider   *)
(* order; every other item is skipped and the call does not fail.          *)
(***************************************************************************)
C1_ResultsAreWellFormedItems ==
    ItemsPresent => /\ response.status = 200
                    /\ response.results = AcceptedPairs(TheItems)

(***************************************************************************)
(* C2: in every response search returns, total is the number of entries    *)
(* of results, never the total the provider supplies.                      *)
(***************************************************************************)
C2_TotalIsCount ==
    response.status = 200 => response.total = Len(response.results)

C2_Witness ==
    /\ ItemsPresent
    /\ Len(TheItems) = 2
    /\ TheSection.map["total"].val = ProviderTotal
    /\ response.status = 200
    /\ Len(response.results) = 1
    /\ response.total = 1

(***************************************************************************)
(* C3: for a valid request, an exception of the provider call or of the    *)
(* interpretation of its response gives the empty result with success      *)
(* status.                                                                 *)
(***************************************************************************)
InterpretationFails ==
    /\ KeyPresent
    /\ \/ ~IsDict(TheSection)
       \/ ItemsPresent /\ \E i \in 1..Len(TheItems) : NullField(TheItems[i])

C3_ProviderFailureGivesEmpty ==
    Answered /\ (provider.raised \/ InterpretationFails) => response = Empty200

C3_Witness ==
    /\ Answered
    /\ provider = Raised("ReadTimeout")
    /\ response = Empty200

(***************************************************************************)
(* C7: no structured response, a response without the plural key of the    *)
(* requested type, or one whose items list under that key is absent or     *)
(* empty, gives the empty result with success status.                      *)
(***************************************************************************)
NothingToExtract ==
    /\ Answered
    /\ ~provider.raised
    /\ \/ provider.value.kind = "none"
       \/ ~Has(provider.value, PluralKey[request.type])
       \/ KeyPresent /\ ~ItemsPresent

C7_NothingFoundGivesEmpty == NothingToExtract => response = Empty200

C7_Witness ==
    /\ Answered
    /\ request.type = "album"
    /\ provider = Returned(Under("tracks",
                      Dict([items |-> List(<<WellFormedA, WellFormedB>>),
                            total |-> IntV(ProviderTotal)])))
    /\ response = Empty200

(***************************************************************************)
(* C10: with a required start-up variable absent or empty the process      *)
(* fails at start-up, naming exactly the missing variables, before the     *)
(* session is built and before any request is served; a request is only    *)
(* handled where both are present.                                         *)
(***************************************************************************)
Present(var) == env[var].kind = "str" /\ env[var].val # ""

ExpectedMessage ==
    "Please set the following environment variables: " \o
    (CASE ~Present("CLIENT_ID") /\ ~Present("CLIENT_SECRET") -> "CLIENT_ID, CLIENT_SECRET"
       [] ~Present("CLIENT_ID") /\ Present("CLIENT_SECRET") -> "CLIENT_ID"
       [] Present("CLIENT_ID") /\ ~Present("CLIENT_SECRET") -> "CLIENT_SECRET"
       [] OTHER -> "")

C10_StartupNeedsBothVariables ==
    /\ proc # "boot" =>
           (proc = "failed" <=> ~Present("CLIENT_ID") \/ ~Present("CLIENT_SECRET"))
    /\ proc = "failed" =>
           /\ startupError = ExpectedMessage
           /\ sp = NoneV
           /\ request = NoRequest
           /\ response = NoResponse
    /\ (sp # NoneV \/ request # NoRequest) =>
           Present("CLIENT_ID") /\ Present("CLIENT_SECRET")

C10_Witness ==
    /\ proc = "failed"
    /\ env["CLIENT_ID"] = Str("id")
    /\ env["CLIENT_SECRET"] = Str("")
    /\ startupError = "Please set the following environment variables: CLIENT_SECRET"
    /\ sp = NoneV

(***************************************************************************)
(* C4: a request whose type is not exactly track, album or playlist, or    *)
(* whose limit is not numeric, gets a client-error response and issues no  *)
(* remote call.                                                            *)
(***************************************************************************)
C4_InvalidRequestRejected ==
    (/\ request.kind = "request"
     /\ \/ request.type \notin {"track", "album", "playlist"}
        \/ request.limit.kind = "text")
    => /\ response.status \in 400..499
       /\ calls = <<>>

C4_Witness ==
    /\ request.kind = "request"
    /\ request.type = "Track"
    /\ request.limit = LimitInt(25)
    /\ response.status = 422
    /\ calls = <<>>

(***************************************************************************)
(* C5: the limit passed to the provider is min(max(1, L), 50) for the      *)
(* integer limit L given (5 when omitted), so it always lies in 1..50.     *)
(***************************************************************************)
GivenLimit == IF request.limit.kind = "absent" THEN 5 ELSE request.limit.val

ExpectedLimit(L) == IF L < 1 THEN 1 ELSE IF L > 50 THEN 50 ELSE L

C5_LimitClamped ==
    Valid(request) =>
        /\ Len(calls) >= 1
        /\ \A c \in 1..Len(calls) :
               /\ calls[c].limit = ExpectedLimit(GivenLimit)
               /\ calls[c].limit \in 1..50

C5_Witness ==
    /\ Valid(request)
    /\ request.limit = LimitInt(HugeLimit)
    /\ Len(calls) = 1
    /\ calls[1].limit = 50

(***************************************************************************)
(* C6: the text sent to the provider is the query with every underscore    *)
(* replaced by a space and every other character unchanged in its place.   *)
(***************************************************************************)
C6_UnderscoresBecomeSpaces ==
    Valid(request) =>
        /\ Len(calls) >= 1
        /\ \A c \in 1..Len(calls) :
               /\ Len(calls[c].q) = Len(request.query)
               /\ \A i \in 1..Len(request.query) :
                      /\ request.query[i] = "_" => calls[c].q[i] = " "
                      /\ request.query[i] # "_" => calls[c].q[i] = request.query[i]

C6_Witness ==
    /\ Valid(request)
    /\ request.query = <<"_", "_">>
    /\ Len(calls) = 1
    /\ calls[1].q = <<" ", " ">>

(***************************************************************************)
(* C8: a valid request issues exactly one remote call, for the fixed       *)
(* market, the requested type and the normalized query and limit; a failed *)
(* call is followed by the empty response, not by a second call.           *)
(***************************************************************************)
RECURSIVE Spaced(_)
Spaced(q) ==
    IF q = <<>> THEN <<>>
    ELSE <<IF Head(q) = "_" THEN " " ELSE Head(q)>> \o Spaced(Tail(q))

C8_ExactlyOneCall ==
    /\ Valid(request) =>
           calls = <<[q |-> Spaced(request.query), type |-> request.type,
                      limit |-> ExpectedLimit(GivenLimit), market |-> "US"]>>
    /\ Answered /\ provider.raised => Len(calls) = 1 /\ response = Empty200

C8_Witness ==
    /\ Answered
    /\ provider.raised
    /\ request.query = <<"a", "_">>
    /\ request.limit = LimitInt(0)
    /\ calls = <<[q |-> <<"a", " ">>, type |-> "track", limit |-> 1, market |-> "US"]>>
    /\ response = Empty200

(***************************************************************************)
(* C9: two requests with the same query, type and limit, answered from the *)
(* same provider state, get the same response, whatever was handled        *)
(* between them; handling a request leaves the shared session as it was.   *)
(***************************************************************************)
SameAsKept ==
    /\ prev.kind = "exchange"
    /\ fresh
    /\ request = prev.request
    /\ provider = prev.provider

C9_RepeatedRequestSameResponse ==
    /\ SameAsKept => response = prev.response
    /\ proc = "serving" => sp = Spotify(env)

C9_Witness ==
    /\ SameAsKept
    /\ prev.between
    /\ response = prev.response
    /\ response.status = 200
    /\ response.total = 2

====
